---- MODULE Spec2Model ----
(***************************************************************************)
(* The storage layer (MemStorage and DatabaseStorage, src/storage.ts), the *)
(* relational schema (src/unnamed/part_000) and the HTTP handlers          *)
(* (src/unnamed/part_001) of the social-network backend.  One action per   *)
(* request handler; the storage methods are operators the handlers use.    *)
(***************************************************************************)
EXTENDS Integers, Sequences, FiniteSets, TLC

\* ---------------------------------------------------------------- bounds
MaxUsers == 2
MaxPosts == 2
MaxComments == 1
MaxLikes == 2
MaxFollows == 2
MaxTime == 2
MaxQueryLen == 2
\* posts, comments, likes and follows inserted in one run, all together
MaxRows == 3
\* handlers suspended at an await at the same time
MaxPending == 2

\* ------------------------------------------------------- input alphabets
Variants == {"mem", "db"}
UserNames == {<<"a", "l">>, <<"B">>}
DisplayNames == {<<"A", "l">>, <<"b">>}
PlainDisplayNames == {<<"A", "l">>}
SearchUserNames == UserNames \cup {<<"a", "_">>}
QueryChars == {"a", "A", "_"}
Contents == {<<"t">>}
Passwords == {<<"p">>}
\* what a PATCH body can put into a field
NewDisplayName == <<"N">>
NewBio == <<"o">>
NewContent == <<"e">>
NewUserName == <<"u">>
NewPassword == <<"q">>

\* PATCH bodies: each leaves out some updatable field; some carry fields
\* that are not updatable
UserBodies ==
  {[displayName |-> NewDisplayName],
   [bio |-> NewBio],
   [username |-> NewUserName, password |-> NewPassword],
   [displayName |-> NewDisplayName, bio |-> NewBio,
    username |-> NewUserName, password |-> NewPassword]}
PostBodies == {[content |-> NewContent], [title |-> NewContent]}
\* partials a direct caller of updateUser / updatePost passes
UserPartials == {[displayName |-> NewDisplayName], [bio |-> NewBio]}
PostPartials == {[content |-> NewContent]}

RECURSIVE SeqsUpTo(_, _)
SeqsUpTo(S, n) ==
  IF n = 0 THEN {<<>>}
  ELSE LET shorter == SeqsUpTo(S, n - 1)
       IN shorter \cup {Append(s, c) : s \in shorter, c \in S}

Queries == SeqsUpTo(QueryChars, MaxQueryLen)

\* ids a request may name: of rows that exist, that were deleted, or that
\* were not created yet
UserIdArgs == 1..MaxUsers
PostIdArgs == 1..MaxPosts
CommentIdArgs == 1..MaxComments
\* the optional currentUserId argument: undefined, or an id
ViewerIdArgs == {<<>>} \cup {<<id>> : id \in UserIdArgs}

\* ------------------------------------------- JavaScript values and arrays
\* T | undefined is <<>> (undefined) or <<v>>
None == <<>>
Some(v) == <<v>>

\* undefined and null as the value of a string-typed property
Undefined == <<"undefined">>
Null == <<"null">>

\* const { k } = body: the property, or undefined when the body has none
Field(body, k) == IF k \in DOMAIN body THEN body[k] ELSE Undefined

\* { ...a, ...b }: the properties of b, then those of a that b has not
Spread(a, b) == b @@ a

\* if (x) on a number | undefined: undefined and 0 are falsy
Truthy(v) == v # None /\ v[1] # 0

\* Array.prototype.filter
filter(arr, P(_)) == SelectSeq(arr, P)

\* Array.prototype.find: the first element satisfying P, or undefined
find(arr, P(_)) ==
  LET hits == SelectSeq(arr, P)
  IN IF hits = <<>> THEN None ELSE Some(hits[1])

\* Array.prototype.map
map(arr, F(_)) == [i \in 1..Len(arr) |-> F(arr[i])]

\* Array.prototype.includes on an array of numbers
arrIncludes(arr, x) == \E i \in 1..Len(arr) : arr[i] = x

\* Map<number, T> keeps insertion order; a row carries its key in .id
MapHas(m, id) == \E i \in 1..Len(m) : m[i].id = id
MapGet(m, id) == find(m, LAMBDA r : r.id = id)
MapSet(m, id, v) ==
  IF MapHas(m, id)
  THEN [i \in 1..Len(m) |-> IF m[i].id = id THEN v ELSE m[i]]
  ELSE Append(m, v)
MapDelete(m, id) == SelectSeq(m, LAMBDA r : r.id # id)
MapValues(m) == m

\* String.prototype.toLowerCase, one character
LowerChar(c) ==
  CASE c = "A" -> "a"
    [] c = "B" -> "b"
    [] c = "L" -> "l"
    [] OTHER -> c

toLowerCase(s) == [i \in 1..Len(s) |-> LowerChar(s[i])]

\* String.prototype.includes
strIncludes(s, q) ==
  \E i \in 0..(Len(s) - Len(q)) : SubSeq(s, i + 1, i + Len(q)) = q

\* SQL LIKE: % matches any run of characters, _ any one character
RECURSIVE LikeMatch(_, _)
LikeMatch(s, pat) ==
  IF pat = <<>> THEN s = <<>>
  ELSE IF Head(pat) = "%"
       THEN \E k \in 0..Len(s) : LikeMatch(SubSeq(s, k + 1, Len(s)), Tail(pat))
       ELSE /\ s # <<>>
            /\ (Head(pat) = "_" \/ Head(pat) = Head(s))
            /\ LikeMatch(Tail(s), Tail(pat))

\* Array.prototype.sort((a, b) => b.createdAt - a.createdAt): stable
RECURSIVE sortByCreatedAtDesc(_)
sortByCreatedAtDesc(arr) ==
  IF arr = <<>> THEN <<>>
  ELSE LET n == Len(arr)
           x == arr[n]
           rest == sortByCreatedAtDesc(SubSeq(arr, 1, n - 1))
           before == SelectSeq(rest, LAMBDA r : r.createdAt >= x.createdAt)
           after == SelectSeq(rest, LAMBDA r : r.createdAt < x.createdAt)
       IN before \o <<x>> \o after

\* every order of the rows of a query result
RowOrders(rows) ==
  {[i \in 1..Len(rows) |-> rows[p[i]]] : p \in Permutations(1..Len(rows))}

\* ORDER BY created_at DESC: rows with equal keys come in any order
orderByCreatedAtDesc(rows) ==
  {s \in RowOrders(rows) :
     \A i, j \in 1..Len(s) : i < j => s[i].createdAt >= s[j].createdAt}

\* ----------------------------------------------------------------- state
VARIABLES
  variant,           \* which IStorage implementation the process runs with
  users, posts, comments, likes, follows,
  currentUserId, currentPostId, currentCommentId, currentLikeId,
  currentFollowId,
  now,               \* the last value read from the clock by new Date()
  resp,              \* the response to the last request
  pending            \* the handlers suspended at an await, in arrival order

store == <<users, posts, comments, likes, follows>>
counters == <<currentUserId, currentPostId, currentCommentId, currentLikeId,
              currentFollowId>>
vars == <<variant, users, posts, comments, likes, follows, currentUserId,
          currentPostId, currentCommentId, currentLikeId, currentFollowId,
          now, resp, pending>>

Response(op, status, body) == [op |-> op, status |-> status, body |-> body]

Init ==
  /\ variant \in Variants
  /\ users = <<>>
  /\ posts = <<>>
  /\ comments = <<>>
  /\ likes = <<>>
  /\ follows = <<>>
  /\ currentUserId = 1
  /\ currentPostId = 1
  /\ currentCommentId = 1
  /\ currentLikeId = 1
  /\ currentFollowId = 1
  /\ now = 1
  /\ resp = Response("none", 0, <<>>)
  /\ pending = <<>>


\* ------------------------------------------------ storage: reads (shared)
\* the result of a storage call that may throw
Throw == [threw |-> TRUE]
Return(v) == [threw |-> FALSE, value |-> v]

getUser(id) == MapGet(users, id)

\* MemStorage compares lower-cased handles, DatabaseStorage uses eq()
getUserByUsername(username) ==
  IF variant = "mem"
  THEN find(MapValues(users),
            LAMBDA user : toLowerCase(user.username) = toLowerCase(username))
  ELSE find(users, LAMBDA user : user.username = username)

likesByPost_AllRows(likeRows, postId) == MapValues(likeRows)

\* getLikesByPost over a given likes relation
likesByPost(likeRows, postId) ==
  filter(MapValues(likeRows), LAMBDA like : like.postId = postId)

getLikesByPost(postId) == likesByPost(likes, postId)

getLike_NeverFound(postId, userId) == None

getLike(postId, userId) ==
  find(MapValues(likes),
       LAMBDA like : like.postId = postId /\ like.userId = userId)

\* getCommentsByPost over a given comments relation
commentsByPost(commentRows, postId) ==
  map(filter(MapValues(commentRows), LAMBDA comment : comment.postId = postId),
      LAMBDA comment : comment @@ [user |-> getUser(comment.userId)])

getCommentsByPost(postId) == commentsByPost(comments, postId)

getFollow_NeverFound(followerId, followingId) == None

getFollow(followerId, followingId) ==
  find(MapValues(follows),
       LAMBDA follow : follow.followerId = followerId
                       /\ follow.followingId = followingId)

\* MemStorage.getFollowing: one entry per Follow row, undefined when the
\* followed user is not in the users map
Mem_getFollowing(userId) ==
  map(filter(MapValues(follows), LAMBDA follow : follow.followerId = userId),
      LAMBDA relation : getUser(relation.followingId))

\* DatabaseStorage.getFollowing: follows INNER JOIN users
Db_getFollowing(userId) ==
  LET joined == filter(follows, LAMBDA follow :
                         follow.followerId = userId
                         /\ MapHas(users, follow.followingId))
  IN map(joined, LAMBDA follow : getUser(follow.followingId))

\* MemStorage.getFollowers: one entry per Follow row, undefined when the
\* follower is not in the users map
Mem_getFollowers(userId) ==
  map(filter(MapValues(follows), LAMBDA follow : follow.followingId = userId),
      LAMBDA relation : getUser(relation.followerId))

\* DatabaseStorage.getFollowers: follows INNER JOIN users
Db_getFollowers(userId) ==
  LET joined == filter(follows, LAMBDA follow :
                         follow.followingId = userId
                         /\ MapHas(users, follow.followerId))
  IN map(joined, LAMBDA follow : getUser(follow.followerId))

getFollowers(userId) ==
  IF variant = "mem" THEN Mem_getFollowers(userId) ELSE Db_getFollowers(userId)

getFollowing(userId) ==
  IF variant = "mem" THEN Mem_getFollowing(userId) ELSE Db_getFollowing(userId)

getUserWithStats_Reversed(userId, viewerId) ==
  LET user == getUser(userId)
  IN IF user = None THEN None
     ELSE LET followers == getFollowers(userId)
              following == getFollowing(userId)
              base == user[1] @@ [followersCount |-> Len(followers),
                                  followingCount |-> Len(following)]
          IN IF Truthy(viewerId)
             THEN Some(base @@ [isFollowing |->
                                  getFollow(userId, viewerId[1]) # None])
             ELSE Some(base)

\* isFollowing stays undefined without a viewer; as with isLiked, the
\* property is then left out
getUserWithStats(userId, viewerId) ==
  LET user == getUser(userId)
  IN IF user = None THEN None
     ELSE LET followers == getFollowers(userId)
              following == getFollowing(userId)
              base == user[1] @@ [followersCount |-> Len(followers),
                                  followingCount |-> Len(following)]
          IN IF Truthy(viewerId)
             THEN Some(base @@ [isFollowing |->
                                  getFollow(viewerId[1], userId) # None])
             ELSE Some(base)

\* the enrichment of one post (the callback of posts.map in enrichPosts)
enrichPost_IsLikedFalse(post, viewerId) ==
  LET user == getUser(post.userId)
      postLikes == getLikesByPost(post.id)
      postComments == getCommentsByPost(post.id)
      base == post @@ [user |-> user,
                       likeCount |-> Len(postLikes),
                       commentCount |-> Len(postComments)]
  IN IF Truthy(viewerId)
     THEN base @@ [isLiked |-> getLike(post.id, viewerId[1]) # None]
     ELSE base @@ [isLiked |-> FALSE]

enrichPost(post, viewerId) ==
  LET user == getUser(post.userId)
      postLikes == getLikesByPost(post.id)
      postComments == getCommentsByPost(post.id)
      base == post @@ [user |-> user,
                       likeCount |-> Len(postLikes),
                       commentCount |-> Len(postComments)]
  IN IF Truthy(viewerId)
     THEN base @@ [isLiked |-> getLike(post.id, viewerId[1]) # None]
     ELSE base

enrichPosts(postsArr, viewerId) ==
  map(postsArr, LAMBDA post : enrichPost(post, viewerId))

\* getPost over a given posts relation
postById(postRows, id) ==
  LET post == MapGet(postRows, id)
  IN IF post = None THEN None
     ELSE Some(enrichPosts(<<post[1]>>, None)[1])

getPost(id) == postById(posts, id)

\* getPosts and getPostsByUser: MemStorage in insertion order,
\* DatabaseStorage ORDER BY created_at DESC
getPosts ==
  IF variant = "mem" THEN {Return(enrichPosts(MapValues(posts), None))}
  ELSE {Return(enrichPosts(postsData, None)) :
          postsData \in orderByCreatedAtDesc(posts)}

getPostsByUser(userId) ==
  IF variant = "mem"
  THEN {Return(enrichPosts(filter(MapValues(posts),
                                  LAMBDA post : post.userId = userId), None))}
  ELSE {Return(enrichPosts(postsData, None)) :
          postsData \in orderByCreatedAtDesc(
                          filter(posts, LAMBDA post : post.userId = userId))}

\* ---------------------------------------------------------- storage: feeds
Mem_getFeedForUser(userId) ==
  LET following == Mem_getFollowing(userId)
  IN IF \E i \in 1..Len(following) : following[i] = None
     THEN Throw    \* user.id of undefined
     ELSE LET followingIds == map(following, LAMBDA user : user[1].id)
              feedPosts ==
                sortByCreatedAtDesc(
                  filter(MapValues(posts), LAMBDA post :
                           arrIncludes(followingIds, post.userId)
                           \/ post.userId = userId))
          IN Return(enrichPosts(feedPosts, Some(userId)))

Db_getFeedForUser(userId) ==
  LET following == Db_getFollowing(userId)
      followingIds == map(following, LAMBDA user : user[1].id)
      selected == filter(posts, LAMBDA post :
                           post.userId = userId
                           \/ arrIncludes(followingIds, post.userId))
  IN {Return(enrichPosts(feedPosts, Some(userId))) :
        feedPosts \in orderByCreatedAtDesc(selected)}

\* the results a call of getFeedForUser can have
getFeedForUser(userId) ==
  IF variant = "mem" THEN {Mem_getFeedForUser(userId)}
  ELSE Db_getFeedForUser(userId)

Mem_getDiscoverFeed ==
  Return(enrichPosts(sortByCreatedAtDesc(MapValues(posts)), None))

Db_getDiscoverFeed ==
  {Return(enrichPosts(allPosts, None)) :
     allPosts \in orderByCreatedAtDesc(posts)}

getDiscoverFeed ==
  IF variant = "mem" THEN {Mem_getDiscoverFeed} ELSE Db_getDiscoverFeed

\* --------------------------------------------------------- storage: search
Mem_searchUsers(query) ==
  IF query = <<>> THEN <<>>
  ELSE LET lowercaseQuery == toLowerCase(query)
       IN filter(MapValues(users), LAMBDA user :
                   strIncludes(toLowerCase(user.username), lowercaseQuery)
                   \/ strIncludes(toLowerCase(user.displayName),
                                  lowercaseQuery))

Db_searchUsers(query) ==
  IF query = <<>> THEN {<<>>}
  ELSE LET pattern == <<"%">> \o query \o <<"%">>
       IN RowOrders(filter(users, LAMBDA user :
                             LikeMatch(user.username, pattern)
                             \/ LikeMatch(user.displayName, pattern)))

searchUsers(query) ==
  IF variant = "mem" THEN {Mem_searchUsers(query)} ELSE Db_searchUsers(query)


\* -------------------------------------------- schema constraints (db only)
\* users.username is unique
Db_usernameFree(username) ==
  ~ \E i \in 1..Len(users) : users[i].username = username

\* posts.user_id, comments.user_id, likes.user_id, follows.* reference users
Db_userExists(userId) == MapHas(users, userId)

\* comments.post_id and likes.post_id reference posts
Db_postExists(postId) == MapHas(posts, postId)

\* uniqLike: one row per (post_id, user_id)
Db_likeFree(postId, userId) ==
  ~ \E i \in 1..Len(likes) :
      likes[i].postId = postId /\ likes[i].userId = userId

\* uniqFollow: one row per (follower_id, following_id)
Db_followFree(followerId, followingId) ==
  ~ \E i \in 1..Len(follows) :
      /\ follows[i].followerId = followerId
      /\ follows[i].followingId = followingId

\* --------------------------------------------------------- storage: writes
\* Each write is an action fragment over the relation and the counter it
\* touches.  A database insert that violates a constraint throws; the serial
\* value it drew is not given back.
createUserThrows(insertUser) ==
  variant = "db" /\ ~ Db_usernameFree(insertUser.username)

createUser(insertUser) ==
  LET id == currentUserId
      user == [id |-> id,
               username |-> insertUser.username,
               password |-> insertUser.password,
               displayName |-> insertUser.displayName,
               bio |-> IF variant = "mem" THEN Null ELSE <<>>]
  IN /\ currentUserId' = currentUserId + 1
     /\ users' = IF createUserThrows(insertUser) THEN users
                 ELSE MapSet(users, id, user)

\* drizzle's set() drops the properties whose value is undefined
GivenKeys(data) == {k \in DOMAIN data : data[k] # Undefined}

\* the row with the given columns set
SetColumns(row, data) ==
  [k \in DOMAIN row |-> IF k \in GivenKeys(data) THEN data[k] ELSE row[k]]

\* set() with nothing to set throws; users.username is unique
updateUserThrows(id, userData) ==
  /\ variant = "db"
  /\ \/ GivenKeys(userData) = {}
     \/ /\ "username" \in GivenKeys(userData)
        /\ MapHas(users, id)
        /\ \E i \in 1..Len(users) :
             users[i].id # id /\ users[i].username = userData.username

updateUserReturns(id, userData) ==
  LET user == getUser(id)
  IN IF user = None THEN None
     ELSE IF variant = "mem" THEN Some(Spread(user[1], userData))
     ELSE Some(SetColumns(user[1], userData))

updateUser(id, userData) ==
  LET updatedUser == updateUserReturns(id, userData)
  IN users' = IF updateUserThrows(id, userData) \/ updatedUser = None
              THEN users
              ELSE MapSet(users, id, updatedUser[1])

updatePostThrows(id, postData) ==
  variant = "db" /\ GivenKeys(postData) = {}

updatePostReturns(id, postData) ==
  LET post == MapGet(posts, id)
  IN IF post = None THEN None
     ELSE IF variant = "mem" THEN Some(Spread(post[1], postData))
     ELSE Some(SetColumns(post[1], postData))

updatePost(id, postData) ==
  LET updatedPost == updatePostReturns(id, postData)
  IN posts' = IF updatePostThrows(id, postData) \/ updatedPost = None
              THEN posts
              ELSE MapSet(posts, id, updatedPost[1])

createPostThrows(insertPost) ==
  variant = "db" /\ ~ Db_userExists(insertPost.userId)

\* date is what new Date() returns: the clock does not run backwards
createPost(insertPost, date) ==
  LET id == currentPostId
      post == [id |-> id,
               userId |-> insertPost.userId,
               content |-> insertPost.content,
               createdAt |-> date]
  IN /\ currentPostId' = currentPostId + 1
     /\ now' = date
     /\ posts' = IF createPostThrows(insertPost) THEN posts
                 ELSE MapSet(posts, id, post)

\* for (const row of rows) map.delete(row.id)
RECURSIVE MapDeleteEach(_, _)
MapDeleteEach(m, rows) ==
  IF rows = <<>> THEN m
  ELSE MapDeleteEach(MapDelete(m, Head(rows).id), Tail(rows))

Mem_deletePost_KeepLikes(id) ==
  LET postComments ==
        filter(MapValues(comments), LAMBDA comment : comment.postId = id)
  IN /\ comments' = MapDeleteEach(comments, postComments)
     /\ likes' = likes
     /\ posts' = MapDelete(posts, id)

Mem_deletePost(id) ==
  LET postComments ==
        filter(MapValues(comments), LAMBDA comment : comment.postId = id)
      postLikes == filter(MapValues(likes), LAMBDA like : like.postId = id)
  IN /\ comments' = MapDeleteEach(comments, postComments)
     /\ likes' = MapDeleteEach(likes, postLikes)
     /\ posts' = MapDelete(posts, id)

\* DELETE FROM comments / likes WHERE post_id = id; DELETE FROM posts
Db_deletePost(id) ==
  /\ comments' = SelectSeq(comments, LAMBDA comment : ~ (comment.postId = id))
  /\ likes' = SelectSeq(likes, LAMBDA like : ~ (like.postId = id))
  /\ posts' = SelectSeq(posts, LAMBDA post : ~ (post.id = id))

\* the three statements of DatabaseStorage.deletePost, each awaited and
\* committed on its own
FailPoints == 1..3

\* statement failAt is rejected by the database (the connection drops, the
\* statement times out): the statements before it stay committed, the ones
\* after it never run
Db_deletePostFailing(id, failAt) ==
  /\ comments' = IF failAt > 1
                 THEN SelectSeq(comments,
                                LAMBDA comment : ~ (comment.postId = id))
                 ELSE comments
  /\ likes' = IF failAt > 2
              THEN SelectSeq(likes, LAMBDA like : ~ (like.postId = id))
              ELSE likes
  /\ posts' = posts

deletePost(id) ==
  IF variant = "mem" THEN Mem_deletePost(id) ELSE Db_deletePost(id)

createCommentThrows(insertComment) ==
  /\ variant = "db"
  /\ ~ (Db_postExists(insertComment.postId)
        /\ Db_userExists(insertComment.userId))

createComment(insertComment) ==
  LET id == currentCommentId
      comment == [id |-> id,
                  postId |-> insertComment.postId,
                  userId |-> insertComment.userId]
  IN /\ currentCommentId' = currentCommentId + 1
     /\ comments' = IF createCommentThrows(insertComment) THEN comments
                    ELSE MapSet(comments, id, comment)

deleteComment(id) == comments' = MapDelete(comments, id)

createLikeThrows(insertLike) ==
  /\ variant = "db"
  /\ ~ (/\ Db_postExists(insertLike.postId)
        /\ Db_userExists(insertLike.userId)
        /\ Db_likeFree(insertLike.postId, insertLike.userId))

createLike_ReusesId(insertLike) ==
  LET id == Len(likes) + 1
      like == [id |-> id,
               postId |-> insertLike.postId,
               userId |-> insertLike.userId]
  IN /\ currentLikeId' = currentLikeId + 1
     /\ likes' = IF createLikeThrows(insertLike) THEN likes
                 ELSE MapSet(likes, id, like)

createLike(insertLike) ==
  LET id == currentLikeId
      like == [id |-> id,
               postId |-> insertLike.postId,
               userId |-> insertLike.userId]
  IN /\ currentLikeId' = currentLikeId + 1
     /\ likes' = IF createLikeThrows(insertLike) THEN likes
                 ELSE MapSet(likes, id, like)

\* MemStorage looks the row up and deletes it by id; DatabaseStorage
\* deletes WHERE post_id = postId AND user_id = userId
deleteLike(postId, userId) ==
  IF variant = "mem"
  THEN LET like == getLike(postId, userId)
       IN likes' = IF like = None THEN likes ELSE MapDelete(likes, like[1].id)
  ELSE likes' = SelectSeq(likes, LAMBDA like :
                            ~ (like.postId = postId /\ like.userId = userId))

createFollowThrows(insertFollow) ==
  /\ variant = "db"
  /\ ~ (/\ Db_userExists(insertFollow.followerId)
        /\ Db_userExists(insertFollow.followingId)
        /\ Db_followFree(insertFollow.followerId, insertFollow.followingId))

createFollow(insertFollow) ==
  LET id == currentFollowId
      follow == [id |-> id,
                 followerId |-> insertFollow.followerId,
                 followingId |-> insertFollow.followingId]
  IN /\ currentFollowId' = currentFollowId + 1
     /\ follows' = IF createFollowThrows(insertFollow) THEN follows
                   ELSE MapSet(follows, id, follow)

deleteFollow_KeepsRow(followerId, followingId) == follows' = follows

deleteFollow(followerId, followingId) ==
  IF variant = "mem"
  THEN LET follow == getFollow(followerId, followingId)
       IN follows' = IF follow = None THEN follows
                     ELSE MapDelete(follows, follow[1].id)
  ELSE follows' = SelectSeq(follows, LAMBDA follow :
                              ~ (/\ follow.followerId = followerId
                                 /\ follow.followingId = followingId))

\* ------------------------------------------- storage: what deletes return
\* MemStorage: Map.delete(id) says whether the key was there;
\* DatabaseStorage: result.count > 0
deletePostReturns(id) ==
  IF variant = "mem" THEN MapHas(posts, id)
  ELSE Len(SelectSeq(posts, LAMBDA post : post.id = id)) > 0

deleteCommentReturns(id) ==
  IF variant = "mem" THEN MapHas(comments, id)
  ELSE Len(SelectSeq(comments, LAMBDA comment : comment.id = id)) > 0

deleteLikeReturns_AlwaysTrue(postId, userId) == TRUE

deleteLikeReturns(postId, userId) ==
  IF variant = "mem"
  THEN LET like == getLike(postId, userId)
       IN IF like = None THEN FALSE ELSE MapHas(likes, like[1].id)
  ELSE Len(SelectSeq(likes, LAMBDA like :
                       like.postId = postId /\ like.userId = userId)) > 0

deleteFollowReturns(followerId, followingId) ==
  IF variant = "mem"
  THEN LET follow == getFollow(followerId, followingId)
       IN IF follow = None THEN FALSE ELSE MapHas(follows, follow[1].id)
  ELSE Len(SelectSeq(follows, LAMBDA follow :
                       /\ follow.followerId = followerId
                       /\ follow.followingId = followingId)) > 0


\* --------------------------------------------------------------- handlers
\* the server takes a request once the response to the one before is sent
Ready == resp.op = "none"

\* res.json / res.send: the response leaves the server
Reply ==
  /\ ~ Ready
  /\ resp' = Response("none", 0, <<>>)
  /\ UNCHANGED <<variant, pending, store, counters, now>>

\* req.isAuthenticated(): the session names a registered user
Authenticated(viewer) == MapHas(users, viewer)

\* status codes of the responses; 500 stands for an exception that leaves
\* the handler
Created == 201
NoContent == 204
BadRequest == 400
Forbidden == 403
NotFound == 404
Conflict == 409

\* the number of inserts into posts, comments, likes and follows so far
RowsInserted ==
  (currentPostId - 1) + (currentCommentId - 1) + (currentLikeId - 1)
  + (currentFollowId - 1)

\* registration: the handle must be free, then storage.createUser
RegisterReq(username, displayName) ==
  /\ Ready
  /\ currentUserId <= MaxUsers
  /\ IF getUserByUsername(username) # None
     THEN /\ resp' = Response("register", BadRequest, None)
          /\ UNCHANGED <<users, currentUserId>>
     ELSE LET insertUser == [username |-> username,
                             password |-> CHOOSE pw \in Passwords : TRUE,
                             displayName |-> displayName]
          IN /\ createUser(insertUser)
             /\ resp' = IF createUserThrows(insertUser)
                        THEN Response("register", 500, None)
                        ELSE Response("register", Created,
                                      MapGet(users', currentUserId))
  /\ UNCHANGED <<variant, pending, posts, comments, likes, follows, currentPostId,
                 currentCommentId, currentLikeId, currentFollowId, now>>

\* POST /api/posts
CreatePostReq(viewer, content, date) ==
  /\ Ready
  /\ Authenticated(viewer)
  /\ date \in now..MaxTime
  /\ currentPostId <= MaxPosts /\ RowsInserted < MaxRows
  /\ LET validatedData == [userId |-> viewer, content |-> content]
     IN /\ createPost(validatedData, date)
        /\ resp' = IF createPostThrows(validatedData)
                   THEN Response("createPost", 500, None)
                   ELSE Response("createPost", Created,
                                 postById(posts', currentPostId))
  /\ UNCHANGED <<variant, pending, users, comments, likes, follows, currentUserId,
                 currentCommentId, currentLikeId, currentFollowId>>

\* DELETE /api/posts/:id
DeletePostReq(viewer, postId) ==
  /\ Ready
  /\ Authenticated(viewer)
  /\ LET post == getPost(postId)
     IN IF post = None
        THEN /\ resp' = Response("deletePost", NotFound, None)
             /\ UNCHANGED <<posts, comments, likes>>
        ELSE IF post[1].userId # viewer
        THEN /\ resp' = Response("deletePost", Forbidden, None)
             /\ UNCHANGED <<posts, comments, likes>>
        ELSE /\ deletePost(postId)
             /\ resp' = Response("deletePost", NoContent, None)
  /\ UNCHANGED <<variant, pending, users, follows, currentUserId, currentPostId,
                 currentCommentId, currentLikeId, currentFollowId, now>>

\* DELETE /api/posts/:id when a statement of the cascade is rejected: the
\* exception leaves the handler
DeletePostFailingReq(viewer, postId, failAt) ==
  /\ Ready
  /\ Authenticated(viewer)
  /\ variant = "db"
  /\ LET post == getPost(postId)
     IN /\ post # None
        /\ post[1].userId = viewer
  /\ Db_deletePostFailing(postId, failAt)
  /\ resp' = Response("deletePost", 500, None)
  /\ UNCHANGED <<variant, pending, users, follows, currentUserId, currentPostId,
                 currentCommentId, currentLikeId, currentFollowId, now>>

\* POST /api/posts/:id/comments
CreateCommentReq(viewer, postId) ==
  /\ Ready
  /\ Authenticated(viewer)
  /\ currentCommentId <= MaxComments /\ RowsInserted < MaxRows
  /\ LET validatedData == [postId |-> postId, userId |-> viewer]
     IN /\ createComment(validatedData)
        /\ resp' = IF createCommentThrows(validatedData)
                   THEN Response("createComment", 500, None)
                   ELSE Response("createComment", Created,
                                 find(commentsByPost(comments', postId),
                                      LAMBDA c : c.id = currentCommentId))
  /\ UNCHANGED <<variant, pending, users, posts, likes, follows, currentUserId,
                 currentPostId, currentLikeId, currentFollowId, now>>

\* DELETE /api/comments/:id reads storage["comments"], a field only
\* MemStorage has
DeleteCommentReq(viewer, commentId) ==
  /\ Ready
  /\ Authenticated(viewer)
  /\ IF variant = "db"
     THEN /\ resp' = Response("deleteComment", 500, None)
          /\ UNCHANGED comments
     ELSE LET comment == find(MapValues(comments),
                              LAMBDA c : c.id = commentId)
          IN IF comment = None
             THEN /\ resp' = Response("deleteComment", NotFound, None)
                  /\ UNCHANGED comments
             ELSE IF comment[1].userId # viewer
             THEN /\ resp' = Response("deleteComment", Forbidden, None)
                  /\ UNCHANGED comments
             ELSE /\ deleteComment(commentId)
                  /\ resp' = Response("deleteComment", NoContent, None)
  /\ UNCHANGED <<variant, pending, users, posts, likes, follows, currentUserId,
                 currentPostId, currentCommentId, currentLikeId,
                 currentFollowId, now>>

\* POST /api/posts/:id/likes
LikeReq_NoCheck(viewer, postId) ==
  /\ Ready
  /\ Authenticated(viewer)
  /\ currentLikeId <= MaxLikes /\ RowsInserted < MaxRows
  /\ LET validatedData == [postId |-> postId, userId |-> viewer]
     IN /\ createLike(validatedData)
        /\ resp' = IF createLikeThrows(validatedData)
                   THEN Response("like", 500, None)
                   ELSE Response("like", Created,
                                 MapGet(likes', currentLikeId))
  /\ UNCHANGED <<variant, pending, users, posts, comments, follows, currentUserId,
                 currentPostId, currentCommentId, currentFollowId, now>>

LikeReq(viewer, postId) ==
  /\ Ready
  /\ Authenticated(viewer)
  /\ LET existingLike == getLike(postId, viewer)
     IN IF existingLike # None
        THEN /\ resp' = Response("like", Conflict, None)
             /\ UNCHANGED <<likes, currentLikeId>>
        ELSE LET validatedData == [postId |-> postId, userId |-> viewer]
             IN /\ currentLikeId <= MaxLikes /\ RowsInserted < MaxRows
                /\ createLike(validatedData)
                /\ resp' = IF createLikeThrows(validatedData)
                           THEN Response("like", 500, None)
                           ELSE Response("like", Created,
                                         MapGet(likes', currentLikeId))
  /\ UNCHANGED <<variant, pending, users, posts, comments, follows, currentUserId,
                 currentPostId, currentCommentId, currentFollowId, now>>

\* DELETE /api/posts/:id/likes
UnlikeReq(viewer, postId) ==
  /\ Ready
  /\ Authenticated(viewer)
  /\ deleteLike(postId, viewer)
  /\ resp' = Response("unlike", NoContent, None)
  /\ UNCHANGED <<variant, pending, users, posts, comments, follows, currentUserId,
                 currentPostId, currentCommentId, currentLikeId,
                 currentFollowId, now>>

\* POST /api/users/:id/follow
FollowReq_NoSelfCheck(viewer, followingId) ==
  /\ Ready
  /\ Authenticated(viewer)
  /\ LET existingFollow == getFollow(viewer, followingId)
     IN IF existingFollow # None
        THEN /\ resp' = Response("follow", Conflict, None)
             /\ UNCHANGED <<follows, currentFollowId>>
        ELSE LET validatedData == [followerId |-> viewer,
                                   followingId |-> followingId]
             IN /\ currentFollowId <= MaxFollows /\ RowsInserted < MaxRows
                /\ createFollow(validatedData)
                /\ resp' = IF createFollowThrows(validatedData)
                           THEN Response("follow", 500, None)
                           ELSE Response("follow", Created,
                                         MapGet(follows', currentFollowId))
  /\ UNCHANGED <<variant, pending, users, posts, comments, likes, currentUserId,
                 currentPostId, currentCommentId, currentLikeId, now>>

FollowReq(viewer, followingId) ==
  /\ Ready
  /\ Authenticated(viewer)
  /\ IF followingId = viewer
     THEN /\ resp' = Response("follow", BadRequest, None)
          /\ UNCHANGED <<follows, currentFollowId>>
     ELSE LET existingFollow == getFollow(viewer, followingId)
          IN IF existingFollow # None
             THEN /\ resp' = Response("follow", Conflict, None)
                  /\ UNCHANGED <<follows, currentFollowId>>
             ELSE LET validatedData == [followerId |-> viewer,
                                        followingId |-> followingId]
                  IN /\ currentFollowId <= MaxFollows /\ RowsInserted < MaxRows
                     /\ createFollow(validatedData)
                     /\ resp' = IF createFollowThrows(validatedData)
                                THEN Response("follow", 500, None)
                                ELSE Response("follow", Created,
                                              MapGet(follows', currentFollowId))
  /\ UNCHANGED <<variant, pending, users, posts, comments, likes, currentUserId,
                 currentPostId, currentCommentId, currentLikeId, now>>

\* DELETE /api/users/:id/follow
UnfollowReq(viewer, followingId) ==
  /\ Ready
  /\ Authenticated(viewer)
  /\ deleteFollow(viewer, followingId)
  /\ resp' = Response("unfollow", NoContent, None)
  /\ UNCHANGED <<variant, pending, users, posts, comments, likes, currentUserId,
                 currentPostId, currentCommentId, currentLikeId,
                 currentFollowId, now>>

\* GET /api/feed
FeedReq(viewer) ==
  /\ Ready
  /\ Authenticated(viewer)
  /\ \E result \in getFeedForUser(viewer) :
       resp' = IF result.threw
               THEN Response("feed", 500, <<>>)
               ELSE Response("feed", 200, result.value)
  /\ UNCHANGED <<variant, pending, store, counters, now>>

\* GET /api/posts
DiscoverReq(viewer) ==
  /\ Ready
  /\ Authenticated(viewer)
  /\ \E result \in getDiscoverFeed :
       resp' = Response("discover", 200, result.value)
  /\ UNCHANGED <<variant, pending, store, counters, now>>

\* GET /api/users/search
SearchReq(viewer, query) ==
  /\ Ready
  /\ Authenticated(viewer)
  /\ \E found \in searchUsers(query) :
       resp' = Response("search", 200, found)
  /\ UNCHANGED <<variant, pending, store, counters, now>>

\* const { password, ...userWithoutPassword } = user
WithoutPassword(user) == [k \in DOMAIN user \ {"password"} |-> user[k]]

\* GET /api/users/:id
GetUserReq(viewer, userId) ==
  /\ Ready
  /\ Authenticated(viewer)
  /\ LET user == getUserWithStats(userId, Some(viewer))
     IN resp' = IF user = None
                THEN Response("getUser", NotFound, None)
                ELSE Response("getUser", 200, Some(WithoutPassword(user[1])))
  /\ UNCHANGED <<variant, pending, store, counters, now>>

\* PATCH /api/users/:id; avatarUrl, which no row of the model carries, is
\* left out of updateData
UpdateUserReq_PassesBody(viewer, userId, body) ==
  /\ Ready
  /\ Authenticated(viewer)
  /\ IF viewer # userId
     THEN /\ resp' = Response("updateUser", Forbidden, None)
          /\ UNCHANGED users
     ELSE LET updateData == body
              updatedUser == updateUserReturns(userId, updateData)
          IN /\ updateUser(userId, updateData)
             /\ resp' = IF updateUserThrows(userId, updateData)
                        THEN Response("updateUser", 500, None)
                        ELSE IF updatedUser = None
                        THEN Response("updateUser", NotFound, None)
                        ELSE Response("updateUser", 200,
                                      Some(WithoutPassword(updatedUser[1])))
  /\ UNCHANGED <<variant, pending, posts, comments, likes, follows, counters, now>>

UpdateUserReq(viewer, userId, body) ==
  /\ Ready
  /\ Authenticated(viewer)
  /\ IF viewer # userId
     THEN /\ resp' = Response("updateUser", Forbidden, None)
          /\ UNCHANGED users
     ELSE LET updateData == [displayName |-> Field(body, "displayName"),
                             bio |-> Field(body, "bio")]
              updatedUser == updateUserReturns(userId, updateData)
          IN /\ updateUser(userId, updateData)
             /\ resp' = IF updateUserThrows(userId, updateData)
                        THEN Response("updateUser", 500, None)
                        ELSE IF updatedUser = None
                        THEN Response("updateUser", NotFound, None)
                        ELSE Response("updateUser", 200,
                                      Some(WithoutPassword(updatedUser[1])))
  /\ UNCHANGED <<variant, pending, posts, comments, likes, follows, counters, now>>

\* PATCH /api/posts/:id; imageUrl, which no row of the model carries, is
\* left out of updateData
UpdatePostReq(viewer, postId, body) ==
  /\ Ready
  /\ Authenticated(viewer)
  /\ LET post == getPost(postId)
     IN IF post = None
        THEN /\ resp' = Response("updatePost", NotFound, None)
             /\ UNCHANGED posts
        ELSE IF post[1].userId # viewer
        THEN /\ resp' = Response("updatePost", Forbidden, None)
             /\ UNCHANGED posts
        ELSE LET updateData == [content |-> Field(body, "content")]
                 updatedPost == updatePostReturns(postId, updateData)
             IN /\ updatePost(postId, updateData)
                /\ resp' = IF updatePostThrows(postId, updateData)
                           THEN Response("updatePost", 500, None)
                           ELSE Response("updatePost", 200,
                                         postById(posts', updatedPost[1].id))
  /\ UNCHANGED <<variant, pending, users, comments, likes, follows, counters, now>>

\* ------------------------------------- storage methods called directly
\* a caller of the exported storage object invokes a method with arguments
\* of its choice; resp.body holds what the method returned
deletePostCall(id) ==
  /\ Ready
  /\ deletePost(id)
  /\ resp' = Response("storage.deletePost", 0, <<deletePostReturns(id)>>)
  /\ UNCHANGED <<variant, pending, users, follows, counters, now>>

deleteCommentCall(id) ==
  /\ Ready
  /\ deleteComment(id)
  /\ resp' = Response("storage.deleteComment", 0, <<deleteCommentReturns(id)>>)
  /\ UNCHANGED <<variant, pending, users, posts, likes, follows, counters, now>>

deleteLikeCall(postId, userId) ==
  /\ Ready
  /\ deleteLike(postId, userId)
  /\ resp' = Response("storage.deleteLike", 0,
                      <<deleteLikeReturns(postId, userId)>>)
  /\ UNCHANGED <<variant, pending, users, posts, comments, follows, counters, now>>

deleteFollowCall(followerId, followingId) ==
  /\ Ready
  /\ deleteFollow(followerId, followingId)
  /\ resp' = Response("storage.deleteFollow", 0,
                      <<deleteFollowReturns(followerId, followingId)>>)
  /\ UNCHANGED <<variant, pending, users, posts, comments, likes, counters, now>>

Next ==
  \/ \E username \in UserNames, displayName \in PlainDisplayNames :
       RegisterReq(username, displayName)
  \/ \E viewer \in UserIdArgs, content \in Contents, date \in 1..MaxTime :
       CreatePostReq(viewer, content, date)
  \/ \E viewer \in UserIdArgs, postId \in PostIdArgs :
       DeletePostReq(viewer, postId)
  \/ \E viewer \in UserIdArgs, postId \in PostIdArgs :
       CreateCommentReq(viewer, postId)
  \/ \E viewer \in UserIdArgs, commentId \in CommentIdArgs :
       DeleteCommentReq(viewer, commentId)
  \/ \E viewer \in UserIdArgs, postId \in PostIdArgs : LikeReq(viewer, postId)
  \/ \E viewer \in UserIdArgs, postId \in PostIdArgs :
       UnlikeReq(viewer, postId)
  \/ \E viewer \in UserIdArgs, followingId \in UserIdArgs :
       FollowReq(viewer, followingId)
  \/ \E viewer \in UserIdArgs, followingId \in UserIdArgs :
       UnfollowReq(viewer, followingId)
  \/ \E viewer \in UserIdArgs : FeedReq(viewer)
  \/ \E viewer \in UserIdArgs : DiscoverReq(viewer)
  \/ Reply

Spec == Init /\ [][Next]_vars

\* registration with every kind of name, and search
NextSearch ==
  \/ \E username \in SearchUserNames, displayName \in DisplayNames :
       RegisterReq(username, displayName)
  \/ \E viewer \in UserIdArgs, query \in Queries : SearchReq(viewer, query)
  \/ Reply

SearchSpec == Init /\ [][NextSearch]_vars

\* rows written through the handlers, deleted by direct storage calls
\* the update methods called directly; a throw is reported as status 500
updateUserCall(id, userData) ==
  /\ Ready
  /\ updateUser(id, userData)
  /\ resp' = IF updateUserThrows(id, userData)
             THEN Response("storage.updateUser", 500, None)
             ELSE Response("storage.updateUser", 0,
                           updateUserReturns(id, userData))
  /\ UNCHANGED <<variant, pending, posts, comments, likes, follows, counters, now>>

updatePostCall(id, postData) ==
  /\ Ready
  /\ updatePost(id, postData)
  /\ resp' = IF updatePostThrows(id, postData)
             THEN Response("storage.updatePost", 500, None)
             ELSE Response("storage.updatePost", 0,
                           updatePostReturns(id, postData))
  /\ UNCHANGED <<variant, pending, users, comments, likes, follows, counters, now>>

getUserWithStatsCall(userId, viewerId) ==
  /\ Ready
  /\ resp' = Response("storage.getUserWithStats", 0,
                      getUserWithStats(userId, viewerId))
  /\ UNCHANGED <<variant, pending, store, counters, now>>

NextStorage ==
  \/ \E username \in UserNames, displayName \in PlainDisplayNames :
       RegisterReq(username, displayName)
  \/ \E viewer \in UserIdArgs, content \in Contents, date \in 1..MaxTime :
       CreatePostReq(viewer, content, date)
  \/ \E viewer \in UserIdArgs, postId \in PostIdArgs :
       CreateCommentReq(viewer, postId)
  \/ \E viewer \in UserIdArgs, postId \in PostIdArgs : LikeReq(viewer, postId)
  \/ \E viewer \in UserIdArgs, followingId \in UserIdArgs :
       FollowReq(viewer, followingId)
  \/ \E id \in PostIdArgs : deletePostCall(id)
  \/ \E id \in CommentIdArgs : deleteCommentCall(id)
  \/ \E postId \in PostIdArgs, userId \in UserIdArgs :
       deleteLikeCall(postId, userId)
  \/ \E followerId \in UserIdArgs, followingId \in UserIdArgs :
       deleteFollowCall(followerId, followingId)
  \/ Reply

StorageSpec == Init /\ [][NextStorage]_vars

\* profiles and posts, updated through the handlers and by direct calls
NextUpdate ==
  \/ \E username \in UserNames, displayName \in PlainDisplayNames :
       RegisterReq(username, displayName)
  \/ \E viewer \in UserIdArgs, content \in Contents, date \in 1..MaxTime :
       CreatePostReq(viewer, content, date)
  \/ \E viewer \in UserIdArgs, userId \in UserIdArgs, body \in UserBodies :
       UpdateUserReq(viewer, userId, body)
  \/ \E viewer \in UserIdArgs, postId \in PostIdArgs, body \in PostBodies :
       UpdatePostReq(viewer, postId, body)
  \/ \E id \in UserIdArgs, userData \in UserPartials :
       updateUserCall(id, userData)
  \/ \E id \in PostIdArgs, postData \in PostPartials :
       updatePostCall(id, postData)
  \/ Reply

UpdateSpec == Init /\ [][NextUpdate]_vars

\* follows, and profiles read with their counts and updated
NextProfile ==
  \/ \E username \in UserNames, displayName \in PlainDisplayNames :
       RegisterReq(username, displayName)
  \/ \E viewer \in UserIdArgs, followingId \in UserIdArgs :
       FollowReq(viewer, followingId)
  \/ \E viewer \in UserIdArgs, followingId \in UserIdArgs :
       UnfollowReq(viewer, followingId)
  \/ \E viewer \in UserIdArgs, userId \in UserIdArgs :
       GetUserReq(viewer, userId)
  \/ \E viewer \in UserIdArgs, userId \in UserIdArgs, body \in UserBodies :
       UpdateUserReq(viewer, userId, body)
  \/ \E userId \in UserIdArgs, viewerId \in ViewerIdArgs :
       getUserWithStatsCall(userId, viewerId)
  \/ Reply

ProfileSpec == Init /\ [][NextProfile]_vars

\* posts with comments and likes, deleted while the database may fail
NextFault ==
  \/ \E username \in UserNames, displayName \in PlainDisplayNames :
       RegisterReq(username, displayName)
  \/ \E viewer \in UserIdArgs, content \in Contents, date \in 1..MaxTime :
       CreatePostReq(viewer, content, date)
  \/ \E viewer \in UserIdArgs, postId \in PostIdArgs :
       CreateCommentReq(viewer, postId)
  \/ \E viewer \in UserIdArgs, postId \in PostIdArgs : LikeReq(viewer, postId)
  \/ \E viewer \in UserIdArgs, postId \in PostIdArgs :
       DeletePostReq(viewer, postId)
  \/ \E viewer \in UserIdArgs, postId \in PostIdArgs, failAt \in FailPoints :
       DeletePostFailingReq(viewer, postId, failAt)
  \/ Reply

FaultSpec == Init /\ [][NextFault]_vars

\* ------------------------------------------- handlers, await by await
\* An async handler runs up to an await, is suspended there, and is resumed
\* with the awaited value; between the two, other handlers may run. The
\* like and the follow handler await twice: the lookup (getLike, getFollow)
\* and the insert (createLike, createFollow), whose body runs when called.

\* the handler suspended at pending[i] leaves the queue when it is resumed
Resume(i) == SubSeq(pending, 1, i - 1) \o SubSeq(pending, i + 1, Len(pending))

\* POST /api/posts/:id/likes up to `await storage.getLike(...)`
LikeReqAwaitGetLike(viewer, postId) ==
  /\ Authenticated(viewer)
  /\ Len(pending) < MaxPending
  /\ pending' = Append(pending, [op |-> "like",
                                 viewer |-> viewer,
                                 target |-> postId,
                                 existing |-> getLike(postId, viewer)])
  /\ UNCHANGED <<variant, store, counters, now, resp>>

\* POST /api/posts/:id/likes from `if (existingLike)` to the response
LikeReqResume(i) ==
  /\ Ready
  /\ pending[i].op = "like"
  /\ LET viewer == pending[i].viewer
         postId == pending[i].target
         existingLike == pending[i].existing
     IN IF existingLike # None
        THEN /\ resp' = Response("like", Conflict, None)
             /\ UNCHANGED <<likes, currentLikeId>>
        ELSE LET validatedData == [postId |-> postId, userId |-> viewer]
             IN /\ currentLikeId <= MaxLikes /\ RowsInserted < MaxRows
                /\ createLike(validatedData)
                /\ resp' = IF createLikeThrows(validatedData)
                           THEN Response("like", 500, None)
                           ELSE Response("like", Created,
                                         MapGet(likes', currentLikeId))
  /\ pending' = Resume(i)
  /\ UNCHANGED <<variant, users, posts, comments, follows, currentUserId,
                 currentPostId, currentCommentId, currentFollowId, now>>

\* POST /api/users/:id/follow up to `await storage.getFollow(...)`; a
\* self-follow is answered before the first await
FollowReqAwaitGetFollow(viewer, followingId) ==
  /\ Authenticated(viewer)
  /\ IF followingId = viewer
     THEN /\ Ready
          /\ resp' = Response("follow", BadRequest, None)
          /\ UNCHANGED pending
     ELSE /\ Len(pending) < MaxPending
          /\ pending' = Append(pending,
                               [op |-> "follow",
                                viewer |-> viewer,
                                target |-> followingId,
                                existing |-> getFollow(viewer, followingId)])
          /\ UNCHANGED resp
  /\ UNCHANGED <<variant, store, counters, now>>

\* POST /api/users/:id/follow from `if (existingFollow)` to the response
FollowReqResume(i) ==
  /\ Ready
  /\ pending[i].op = "follow"
  /\ LET viewer == pending[i].viewer
         followingId == pending[i].target
         existingFollow == pending[i].existing
     IN IF existingFollow # None
        THEN /\ resp' = Response("follow", Conflict, None)
             /\ UNCHANGED <<follows, currentFollowId>>
        ELSE LET validatedData == [followerId |-> viewer,
                                   followingId |-> followingId]
             IN /\ currentFollowId <= MaxFollows /\ RowsInserted < MaxRows
                /\ createFollow(validatedData)
                /\ resp' = IF createFollowThrows(validatedData)
                           THEN Response("follow", 500, None)
                           ELSE Response("follow", Created,
                                         MapGet(follows', currentFollowId))
  /\ pending' = Resume(i)
  /\ UNCHANGED <<variant, users, posts, comments, likes, currentUserId,
                 currentPostId, currentCommentId, currentLikeId, now>>

\* like and follow requests in flight together
NextAsync ==
  \/ \E username \in UserNames, displayName \in PlainDisplayNames :
       RegisterReq(username, displayName)
  \/ \E viewer \in UserIdArgs, content \in Contents, date \in 1..MaxTime :
       CreatePostReq(viewer, content, date)
  \/ \E viewer \in UserIdArgs, postId \in PostIdArgs :
       LikeReqAwaitGetLike(viewer, postId)
  \/ \E i \in 1..Len(pending) : LikeReqResume(i)
  \/ \E viewer \in UserIdArgs, followingId \in UserIdArgs :
       FollowReqAwaitGetFollow(viewer, followingId)
  \/ \E i \in 1..Len(pending) : FollowReqResume(i)
  \/ Reply

AsyncSpec == Init /\ [][NextAsync]_vars


\* ------------------------------------------------------------- properties
\* what the relations hold, read off the rows
LikePairExists(postId, userId) ==
  \E k \in 1..Len(likes) :
    likes[k].postId = postId /\ likes[k].userId = userId

FollowPairExists(followerId, followingId) ==
  \E k \in 1..Len(follows) :
    follows[k].followerId = followerId /\ follows[k].followingId = followingId

Registered(userId) == \E k \in 1..Len(users) : users[k].id = userId

PostIds == {posts[k].id : k \in 1..Len(posts)}
PostRow(postId) == posts[CHOOSE k \in 1..Len(posts) : posts[k].id = postId]
BodyIds(body) == {body[k].id : k \in 1..Len(body)}

\* C1: after any sequence of like, unlike, create-post and delete-post
\* requests the likes relation holds at most one row for a (postId, userId)
\* pair.
C1_OneLikePerPair ==
  \A i, j \in 1..Len(likes) :
    (likes[i].postId = likes[j].postId /\ likes[i].userId = likes[j].userId)
      => i = j

\* a pair was liked, unliked and liked again, and the row is there once
C1_Witness ==
  /\ Len(likes) = 1
  /\ currentLikeId = 3
  /\ resp.op = "like" /\ resp.status = Created
  /\ MapHas(posts, likes[1].postId)

\* C2: after any sequence of follow and unfollow requests the follows
\* relation holds at most one row for a (followerId, followingId) pair.
C2_OneFollowPerPair ==
  \A i, j \in 1..Len(follows) :
    (/\ follows[i].followerId = follows[j].followerId
     /\ follows[i].followingId = follows[j].followingId) => i = j

\* a pair was followed, unfollowed and followed again
C2_Witness ==
  /\ Len(follows) = 1
  /\ currentFollowId = 3
  /\ resp.op = "follow" /\ resp.status = Created
  /\ Registered(follows[1].followingId)

\* C3: once deletePost(P) has returned, getLikesByPost(P) and
\* getCommentsByPost(P) are empty and getPost(P) is absent, and the comments
\* and likes of every other post are as they were.
C3_DeletePostCascades ==
  [][\A viewer \in UserIdArgs, P \in PostIdArgs :
       (/\ resp'.op = "deletePost" /\ resp'.status = NoContent
        /\ DeletePostReq(viewer, P)) =>
         /\ likesByPost(likes', P) = <<>>
         /\ commentsByPost(comments', P) = <<>>
         /\ postById(posts', P) = None
         /\ \A Q \in PostIdArgs \ {P} :
              /\ likesByPost(likes', Q) = likesByPost(likes, Q)
              /\ commentsByPost(comments', Q) = commentsByPost(comments, Q)
              /\ MapGet(posts', Q) = MapGet(posts, Q)]_vars

\* a post that had a like and a comment was deleted with both of them
C3_Witness ==
  /\ resp.op = "deletePost" /\ resp.status = NoContent
  /\ posts = <<>> /\ currentPostId = 2
  /\ likes = <<>> /\ currentLikeId = 2
  /\ comments = <<>> /\ currentCommentId = 2

\* C4: getFeedForUser(U) returns exactly the posts whose author is U or a
\* user U follows.
ExpectedFeedIds(U) ==
  {id \in PostIds :
     PostRow(id).userId = U \/ FollowPairExists(U, PostRow(id).userId)}

C4_FeedIsOwnAndFollowed ==
  [][\A U \in UserIdArgs :
       (resp'.op = "feed" /\ FeedReq(U)) =>
         /\ resp'.status = 200
         /\ BodyIds(resp'.body) = ExpectedFeedIds(U)
         /\ Len(resp'.body) = Cardinality(ExpectedFeedIds(U))]_vars

\* C5: both feeds come ordered by creation timestamp descending, and posts
\* with the same timestamp come in insertion (identity) order.
OrderedNewestFirst(body) ==
  \A i, j \in 1..Len(body) :
    i < j => /\ body[i].createdAt >= body[j].createdAt
             /\ body[i].createdAt = body[j].createdAt => body[i].id < body[j].id

C5_FeedsOrdered ==
  [][\A U \in UserIdArgs :
       (/\ resp'.op \in {"feed", "discover"} /\ resp'.status = 200
        /\ (FeedReq(U) \/ DiscoverReq(U))) =>
         OrderedNewestFirst(resp'.body)]_vars

\* C6: enriching a post without a viewer yields no isLiked field; with a
\* viewer V, isLiked says whether a Like row (post, V) exists.
C6_IsLikedPerViewer ==
  \A k \in 1..Len(posts) :
    /\ "isLiked" \notin DOMAIN enrichPost(posts[k], None)
    /\ \A V \in UserIdArgs :
         /\ "isLiked" \in DOMAIN enrichPost(posts[k], Some(V))
         /\ enrichPost(posts[k], Some(V)).isLiked
              = LikePairExists(posts[k].id, V)

\* a feed was served that shows a post the viewer likes
C6_Witness ==
  /\ resp.op = "feed" /\ resp.status = 200
  /\ \E k \in 1..Len(resp.body) : resp.body[k].isLiked

\* C7: a like request for a pair that has a Like is answered with Conflict
\* (which is not NotFound), writes no row and leaves the post's like count.
C7_DuplicateLikeConflicts ==
  [][\A viewer \in UserIdArgs, postId \in PostIdArgs :
       (/\ resp'.op = "like" /\ LikePairExists(postId, viewer)
        /\ LikeReq(viewer, postId)) =>
         /\ resp'.status = Conflict
         /\ Conflict # NotFound
         /\ likes' = likes
         /\ currentLikeId' = currentLikeId
         /\ Len(likesByPost(likes', postId)) = Len(likesByPost(likes, postId))
    ]_vars

\* a like request was refused for a pair that has its row
C7_Witness ==
  /\ resp.op = "like" /\ resp.status = Conflict
  /\ Len(likes) >= 1

\* C8: a follow request of a user for itself is rejected before any row is
\* written, so no Follow row has followerId = followingId.
C8_SelfFollowRejected ==
  /\ [](\A k \in 1..Len(follows) :
          follows[k].followerId # follows[k].followingId)
  /\ [][\A viewer \in UserIdArgs :
          (resp'.op = "follow" /\ FollowReq(viewer, viewer)) =>
            /\ resp'.status = BadRequest
            /\ follows' = follows
            /\ currentFollowId' = currentFollowId]_vars

\* a self-follow was refused
C8_Witness == resp.op = "follow" /\ resp.status = BadRequest

\* C9: A follows B and B creates X: A's feed has X with isLiked false; A
\* likes X: the feed has X with isLiked true and like count 1; A unfollows
\* B: the feed no longer has X.
FollowsOnly(A, B) ==
  /\ A # B /\ Registered(A) /\ Registered(B)
  /\ \A k \in 1..Len(follows) :
       follows[k].followerId = A => follows[k].followingId = B
  /\ FollowPairExists(A, B)

\* every result of getFeedForUser(A) has X, with these isLiked and likeCount
FeedShows(A, X, isLiked, likeCount) ==
  \A result \in getFeedForUser(A) :
    /\ ~ result.threw
    /\ \E k \in 1..Len(result.value) :
         LET entry == result.value[k]
         IN /\ entry.id = X
            /\ "isLiked" \in DOMAIN entry
            /\ entry.isLiked = isLiked
            /\ entry.likeCount = likeCount

FeedOmits(A, X) ==
  \A result \in getFeedForUser(A) :
    ~ result.threw /\ X \notin BodyIds(result.value)

C9_FollowLikeUnfollowScenario ==
  [][resp'.op \in {"createPost", "like", "unfollow"} =>
      \A A \in UserIdArgs, B \in UserIdArgs, X \in PostIdArgs :
        FollowsOnly(A, B) =>
          /\ (/\ resp'.op = "createPost" /\ resp'.status = Created
              /\ likesByPost(likes, X) = <<>>
              /\ \E content \in Contents, date \in 1..MaxTime :
                   CreatePostReq(B, content, date)
              /\ resp'.body[1].id = X)
               => FeedShows(A, X, FALSE, 0)'
          /\ (/\ resp'.op = "like"
              /\ MapHas(posts, X) /\ PostRow(X).userId = B
              /\ likesByPost(likes, X) = <<>>
              /\ LikeReq(A, X))
               => FeedShows(A, X, TRUE, 1)'
          /\ (/\ resp'.op = "unfollow"
              /\ MapHas(posts, X) /\ PostRow(X).userId = B
              /\ LikePairExists(X, A)
              /\ UnfollowReq(A, B))
               => FeedOmits(A, X)']_vars

\* A followed B, B posted X, A liked X, A unfollowed B
C9_Witness ==
  /\ resp.op = "unfollow"
  /\ follows = <<>> /\ currentFollowId = 2
  /\ Len(posts) = 1 /\ Len(likes) = 1
  /\ likes[1].postId = posts[1].id
  /\ likes[1].userId # posts[1].userId

\* C10: searchUsers(q) returns exactly the users whose handle or display
\* name contains q, compared case-insensitively, and nothing when q is
\* empty, in both store variants.
ContainsIgnoringCase(s, q) ==
  \E i \in 0..(Len(s) - Len(q)) :
    \A k \in 1..Len(q) : LowerChar(s[i + k]) = LowerChar(q[k])

ExpectedSearchIds(q) ==
  IF q = <<>> THEN {}
  ELSE {users[k].id : k \in {n \in 1..Len(users) :
                               \/ ContainsIgnoringCase(users[n].username, q)
                               \/ ContainsIgnoringCase(users[n].displayName,
                                                       q)}}

C10_SearchIgnoresCase ==
  [][\A viewer \in UserIdArgs, query \in Queries :
       (resp'.op = "search" /\ SearchReq(viewer, query)) =>
         /\ BodyIds(resp'.body) = ExpectedSearchIds(query)
         /\ Len(resp'.body) = Cardinality(ExpectedSearchIds(query))]_vars

\* C11: for each kind of entity the ids given out by successive creates
\* strictly increase, and an id is never given out twice, also after the row
\* that held it was deleted directly or by cascade.
\* every row that rowsNext has and rows has not got its id from the counter
FreshIds(rows, rowsNext, counter, counterNext) ==
  /\ counterNext >= counter
  /\ \A k \in 1..Len(rowsNext) :
       ~ MapHas(rows, rowsNext[k].id) =>
         /\ rowsNext[k].id >= counter
         /\ rowsNext[k].id < counterNext

IdsBelow(rows, counter) == \A k \in 1..Len(rows) : rows[k].id < counter

C11_IdsIncreaseNeverReused ==
  /\ [](/\ IdsBelow(users, currentUserId)
        /\ IdsBelow(posts, currentPostId)
        /\ IdsBelow(comments, currentCommentId)
        /\ IdsBelow(likes, currentLikeId)
        /\ IdsBelow(follows, currentFollowId))
  /\ [][/\ FreshIds(users, users', currentUserId, currentUserId')
        /\ FreshIds(posts, posts', currentPostId, currentPostId')
        /\ FreshIds(comments, comments', currentCommentId, currentCommentId')
        /\ FreshIds(likes, likes', currentLikeId, currentLikeId')
        /\ FreshIds(follows, follows', currentFollowId, currentFollowId')
       ]_vars

\* the first like was deleted and the next like got the next id, not its id
C11_Witness ==
  /\ resp.op = "like" /\ resp.status = Created
  /\ resp.body[1].id = 2
  /\ Len(likes) = 1 /\ likes[1].id = 2

\* C12: deletePost, deleteComment, deleteLike and deleteFollow return true
\* exactly when the row they name was there before the call and is gone
\* after it; deleteLike and deleteFollow for a pair with no row return false
\* and change nothing.
C12_DeletesReturnWhetherRemoved ==
  [][/\ \A id \in PostIdArgs :
          (resp'.op = "storage.deletePost" /\ deletePostCall(id)) =>
            (resp'.body[1] <=> (MapHas(posts, id) /\ ~ MapHas(posts', id)))
     /\ \A id \in CommentIdArgs :
          (resp'.op = "storage.deleteComment" /\ deleteCommentCall(id)) =>
            (resp'.body[1]
               <=> (MapHas(comments, id) /\ ~ MapHas(comments', id)))
     /\ \A postId \in PostIdArgs, userId \in UserIdArgs :
          (resp'.op = "storage.deleteLike"
           /\ deleteLikeCall(postId, userId)) =>
            /\ resp'.body[1] <=> (/\ LikePairExists(postId, userId)
                                  /\ ~ LikePairExists(postId, userId)')
            /\ ~ LikePairExists(postId, userId) =>
                 (resp'.body[1] = FALSE /\ likes' = likes)
     /\ \A followerId \in UserIdArgs, followingId \in UserIdArgs :
          (resp'.op = "storage.deleteFollow"
           /\ deleteFollowCall(followerId, followingId)) =>
            /\ resp'.body[1] <=> (/\ FollowPairExists(followerId, followingId)
                                  /\ ~ FollowPairExists(followerId,
                                                        followingId)')
            /\ ~ FollowPairExists(followerId, followingId) =>
                 (resp'.body[1] = FALSE /\ follows' = follows)]_vars

\* deleteLike removed the only like and returned true
C12_Witness ==
  /\ resp.op = "storage.deleteLike" /\ resp.body = <<TRUE>>
  /\ likes = <<>> /\ currentLikeId = 2

\* C13: updateUser and updatePost return absent and change nothing for an
\* unknown id; otherwise every field the partial does not carry keeps its
\* value, also when the partial is the one a PATCH handler builds from a
\* body that leaves out an updatable field.
RowOf(rows, id) == MapGet(rows, id)[1]

\* the row is still there and its fields outside given are as they were
KeepsFieldsOutside(rows, rowsNext, id, given) ==
  /\ MapHas(rowsNext, id)
  /\ \A k \in DOMAIN RowOf(rows, id) \ given :
       /\ k \in DOMAIN RowOf(rowsNext, id)
       /\ RowOf(rowsNext, id)[k] = RowOf(rows, id)[k]

\* the two storage methods, called directly
StorageUpdatesKeepAbsentFields ==
  /\ \A id \in UserIdArgs, userData \in UserPartials :
       (resp'.op = "storage.updateUser" /\ updateUserCall(id, userData)) =>
         IF MapHas(users, id)
         THEN /\ resp'.body # None
              /\ KeepsFieldsOutside(users, users', id, DOMAIN userData)
         ELSE resp'.status = 0 /\ resp'.body = None /\ users' = users
  /\ \A id \in PostIdArgs, postData \in PostPartials :
       (resp'.op = "storage.updatePost" /\ updatePostCall(id, postData)) =>
         IF MapHas(posts, id)
         THEN /\ resp'.body # None
              /\ KeepsFieldsOutside(posts, posts', id, DOMAIN postData)
         ELSE resp'.status = 0 /\ resp'.body = None /\ posts' = posts

C13_UpdatesKeepAbsentFields ==
  [][/\ StorageUpdatesKeepAbsentFields
     /\ \A viewer \in UserIdArgs, body \in UserBodies :
          (resp'.op = "updateUser" /\ UpdateUserReq(viewer, viewer, body)) =>
            KeepsFieldsOutside(users, users', viewer, DOMAIN body)
     /\ \A viewer \in UserIdArgs, postId \in PostIdArgs, body \in PostBodies :
          (/\ resp'.op = "updatePost" /\ MapHas(posts, postId)
           /\ UpdatePostReq(viewer, postId, body)) =>
            KeepsFieldsOutside(posts, posts', postId, DOMAIN body)]_vars

\* C14: getFollowers(u) and getFollowing(u) skip Follow rows whose user is
\* not in the users relation: every entry is an existing user, and
\* getFeedForUser(u) and getUserWithStats(u) complete without an error.
OnlyExistingUsers(arr) ==
  \A i \in 1..Len(arr) : arr[i] # None /\ MapHas(users, arr[i][1].id)

C14_DanglingFollowsSkipped ==
  \A u \in UserIdArgs :
    /\ OnlyExistingUsers(getFollowers(u))
    /\ OnlyExistingUsers(getFollowing(u))
    /\ \A result \in getFeedForUser(u) : ~ result.threw
    /\ Registered(u) => getUserWithStats(u, None) # None

\* C15: every post a read returns (getPost, getPosts, getPostsByUser, both
\* feeds) has likeCount = the number of Like rows of the post and
\* commentCount = the number of its Comment rows, in the store as it is.
ExactCounts(entries) ==
  \A k \in 1..Len(entries) :
    /\ entries[k].likeCount =
         Cardinality({i \in 1..Len(likes) : likes[i].postId = entries[k].id})
    /\ entries[k].commentCount =
         Cardinality({i \in 1..Len(comments) :
                        comments[i].postId = entries[k].id})

C15_CountsExact ==
  /\ \A id \in PostIdArgs : ExactCounts(getPost(id))
  /\ \A result \in getPosts : ExactCounts(result.value)
  /\ \A result \in getDiscoverFeed : ExactCounts(result.value)
  /\ \A U \in UserIdArgs :
       /\ \A result \in getPostsByUser(U) : ExactCounts(result.value)
       /\ \A result \in getFeedForUser(U) :
            ~ result.threw => ExactCounts(result.value)

\* a feed was served with a post that has one like and one comment
C15_Witness ==
  /\ resp.op \in {"feed", "discover"} /\ resp.status = 200
  /\ \E k \in 1..Len(resp.body) :
       resp.body[k].likeCount = 1 /\ resp.body[k].commentCount = 1

\* C16: getUserWithStats(u, v) is absent when u does not exist; otherwise
\* followersCount is the number of Follow rows with followingId = u,
\* followingCount the number with followerId = u, and isFollowing is there
\* only when a viewer v is given, and says whether a Follow row (v, u) exists.
C16_UserStats ==
  \A u \in UserIdArgs, v \in ViewerIdArgs :
    LET stats == getUserWithStats(u, v)
    IN IF ~ Registered(u) THEN stats = None
       ELSE /\ stats # None
            /\ stats[1].followersCount =
                 Cardinality({k \in 1..Len(follows) :
                                follows[k].followingId = u})
            /\ stats[1].followingCount =
                 Cardinality({k \in 1..Len(follows) :
                                follows[k].followerId = u})
            /\ ("isFollowing" \in DOMAIN stats[1]) <=> (v # None)
            /\ v # None =>
                 (stats[1].isFollowing <=> FollowPairExists(v[1], u))

\* a profile was served to a viewer who follows its user and is not followed
\* back
C16_Witness ==
  /\ resp.op = "getUser" /\ resp.status = 200
  /\ resp.body[1].isFollowing
  /\ resp.body[1].followersCount = 1
  /\ resp.body[1].followingCount = 0

\* C17: a profile-update request never changes the handle or the password
\* of any user, whatever its body carries, and changes no user record but the
\* requester's own.
C17_ProfileUpdateFrame ==
  [][\A viewer \in UserIdArgs, userId \in UserIdArgs, body \in UserBodies :
       (resp'.op = "updateUser" /\ UpdateUserReq(viewer, userId, body)) =>
         /\ Len(users') = Len(users)
         /\ \A k \in 1..Len(users) :
              /\ users'[k].id = users[k].id
              /\ users'[k].username = users[k].username
              /\ users'[k].password = users[k].password
              /\ users[k].id # viewer => users'[k] = users[k]]_vars

\* a profile was updated, by a body or bodies that set both updatable fields
C17_Witness ==
  /\ resp.op = "updateUser" /\ resp.status = 200
  /\ resp.body[1].displayName = NewDisplayName
  /\ resp.body[1].bio = NewBio
  /\ resp.body[1].username \in UserNames

\* C18: deletePost is all-or-nothing: when a step of the cascade fails the
\* post and all its comments and likes are as before the call; the post never
\* survives with some of them removed, and is never removed with some left.
C18_DeletePostAllOrNothing ==
  [][\A viewer \in UserIdArgs, P \in PostIdArgs :
       (/\ resp'.op = "deletePost" /\ resp'.status \in {NoContent, 500}
        /\ \/ DeletePostReq(viewer, P)
           \/ \E failAt \in FailPoints :
                DeletePostFailingReq(viewer, P, failAt)) =>
         \/ /\ resp'.status = 500
            /\ posts' = posts /\ comments' = comments /\ likes' = likes
         \/ /\ resp'.status = NoContent
            /\ ~ MapHas(posts', P)
            /\ likesByPost(likes', P) = <<>>
            /\ commentsByPost(comments', P) = <<>>]_vars

\* C19: a post leaves the store only through a delete request of its
\* author; a comment leaves it only through a delete request of its author
\* or with its post; and a delete request of the author for an existing
\* comment removes it.
\* rows leave the store only in these ways
RemovedOnlyByAuthor ==
  /\ \A k \in 1..Len(posts) :
       ~ MapHas(posts', posts[k].id) =>
         /\ resp'.op = "deletePost"
         /\ DeletePostReq(posts[k].userId, posts[k].id)
  /\ \A k \in 1..Len(comments) :
       ~ MapHas(comments', comments[k].id) =>
         \/ /\ resp'.op = "deleteComment"
            /\ DeleteCommentReq(comments[k].userId, comments[k].id)
         \/ /\ resp'.op = "deletePost"
            /\ MapHas(posts, comments[k].postId)
            /\ ~ MapHas(posts', comments[k].postId)

\* the author's request removes the comment
AuthorRemovesComment ==
  \A k \in 1..Len(comments) :
    (/\ resp'.op = "deleteComment"
     /\ DeleteCommentReq(comments[k].userId, comments[k].id)) =>
      /\ resp'.status = NoContent
      /\ ~ MapHas(comments', comments[k].id)

C19_DeleteOnlyByAuthor ==
  [][RemovedOnlyByAuthor /\ AuthorRemovesComment]_vars


\* C20: with the in-memory store, like requests and follow requests that
\* are suspended at their awaits together insert at most one row for a
\* pair: no two like rows share (postId, userId) and no two follow rows
\* share (followerId, followingId), whatever the order of resumption.
C20_OneRowPerPairUnderInterleaving ==
  variant = "mem" =>
    /\ \A j, k \in 1..Len(likes) :
         (/\ likes[j].postId = likes[k].postId
          /\ likes[j].userId = likes[k].userId) => j = k
    /\ \A j, k \in 1..Len(follows) :
         (/\ follows[j].followerId = follows[k].followerId
          /\ follows[j].followingId = follows[k].followingId) => j = k


\* C21: with the in-memory store, every comment row and every like row
\* references a post that is in the posts relation, in every state reached
\* by comment, like, create-post and delete-post requests.
C21_NoOrphanedRows ==
  variant = "mem" =>
    /\ \A k \in 1..Len(comments) : MapHas(posts, comments[k].postId)
    /\ \A k \in 1..Len(likes) : MapHas(posts, likes[k].postId)

====
